---- MODULE Spec2Model ----
(***************************************************************************)
(* Model of the video-game sales ETL pipeline (etl/main.py, extract.py,    *)
(* transform.py, validate.py, load.py).                                    *)
(*                                                                         *)
(* A column name is a sequence of one-character strings, so that           *)
(* strip/lower/replace act on characters.  A cell is a record [k, v]:      *)
(*   k = "int"  an integer (v),                                            *)
(*   k = "nan"  the null marker (NaN / empty CSV field),                   *)
(*   k = "str"  text that does not parse as a number (such as "N/A"),      *)
(*   k = "inf"  a non-finite float ("inf" parses as a float in pandas).    *)
(* A DataFrame is [columns |-> set of names, rows |-> sequence of rows],   *)
(* a row is [id |-> position in the source file, cells |-> name -> cell].  *)
(* Functions that may return a boolean or raise return "True", "False" or  *)
(* "Raise".                                                                *)
(***************************************************************************)
EXTENDS Integers, Sequences, FiniteSets, TLC

\* ------------------------------------------------------------------ bounds
\* longest dataset (rows) drawn as input
MaxLen == 2
\* largest --max-rows drawn as input (the smallest is -1)
MaxArg == 2
\* longest column name drawn as input (characters)
MaxName == 3

\* ------------------------------------------------------------ column names
Year_of_Release == <<"Y","e","a","r","_","o","f","_","R","e","l","e","a","s","e">>
NA_Sales == <<"N","A","_","S","a","l","e","s">>
EU_Sales == <<"E","U","_","S","a","l","e","s">>
JP_Sales == <<"J","P","_","S","a","l","e","s">>
Other_Sales == <<"O","t","h","e","r","_","S","a","l","e","s">>
Global_Sales == <<"G","l","o","b","a","l","_","S","a","l","e","s">>
Critic_Score == <<"C","r","i","t","i","c","_","S","c","o","r","e">>
Critic_Count == <<"C","r","i","t","i","c","_","C","o","u","n","t">>
User_Score == <<"U","s","e","r","_","S","c","o","r","e">>
User_Count == <<"U","s","e","r","_","C","o","u","n","t">>

year_of_release == <<"y","e","a","r","_","o","f","_","r","e","l","e","a","s","e">>
na_sales == <<"n","a","_","s","a","l","e","s">>
eu_sales == <<"e","u","_","s","a","l","e","s">>
jp_sales == <<"j","p","_","s","a","l","e","s">>
other_sales == <<"o","t","h","e","r","_","s","a","l","e","s">>
global_sales == <<"g","l","o","b","a","l","_","s","a","l","e","s">>

\* transform.py: numeric_columns of transform_data_types
numeric_columns ==
    { Year_of_Release, NA_Sales, EU_Sales, JP_Sales, Other_Sales, Global_Sales,
      Critic_Score, Critic_Count, User_Score, User_Count }

\* extract.py: expected_columns of validate_raw_data
expected_columns ==
    { Year_of_Release, NA_Sales, EU_Sales, JP_Sales, Other_Sales, Global_Sales }

\* validate.py: required_columns of validate_schema
required_columns ==
    { year_of_release, na_sales, eu_sales, jp_sales, other_sales, global_sales }

\* validate.py: key_columns of validate_data_quality
key_columns == { year_of_release, global_sales }

\* validate.py: the year below which a release year is reported
MinYear == 1950

\* ------------------------------------------------------------------- cells
IntCell(n) == [k |-> "int", v |-> n]
NaN == [k |-> "nan", v |-> 0]
StrCell == [k |-> "str", v |-> 0]
InfCell == [k |-> "inf", v |-> 0]

\* pandas isnull(): only the null marker is null
isnull(c) == c.k = "nan"

\* pd.to_numeric(errors='coerce') on one cell: text that does not parse
\* becomes the null marker, everything else is kept
to_numeric(c) == IF c.k = "str" THEN NaN ELSE c

\* Series.fillna(0) on one cell
fillna0(c) == IF isnull(c) THEN IntCell(0) ELSE c

\* ---------------------------------------------------- column-name strings
Upper == <<"A","B","C","D","E","F","G","H","I","J","K","L","M",
           "N","O","P","Q","R","S","T","U","V","W","X","Y","Z">>
Lower == <<"a","b","c","d","e","f","g","h","i","j","k","l","m",
           "n","o","p","q","r","s","t","u","v","w","x","y","z">>

\* str.swapcase() on one character
swapcase_char(ch) ==
    IF \E i \in 1..Len(Upper) : Upper[i] = ch
    THEN Lower[CHOOSE i \in 1..Len(Upper) : Upper[i] = ch]
    ELSE IF \E i \in 1..Len(Lower) : Lower[i] = ch
    THEN Upper[CHOOSE i \in 1..Len(Lower) : Lower[i] = ch]
    ELSE ch

\* str.lower() on one character
lower_char(ch) ==
    IF \E i \in 1..Len(Upper) : Upper[i] = ch
    THEN Lower[CHOOSE i \in 1..Len(Upper) : Upper[i] = ch]
    ELSE ch

\* the characters str.strip() drops: blank and tab stand for white space
Whitespace == {" ", "\t"}

\* str.strip(): drop the leading and the trailing white space
RECURSIVE lstrip(_)
lstrip(s) == IF s # <<>> /\ Head(s) \in Whitespace THEN lstrip(Tail(s)) ELSE s

RECURSIVE rstrip(_)
rstrip(s) ==
    IF s # <<>> /\ s[Len(s)] \in Whitespace
    THEN rstrip(SubSeq(s, 1, Len(s) - 1))
    ELSE s

strip(s) == rstrip(lstrip(s))

\* str.lower()
lower(s) == [i \in 1..Len(s) |-> lower_char(s[i])]

\* str.replace(' ', '_')
replace_space(s) == [i \in 1..Len(s) |-> IF s[i] = " " THEN "_" ELSE s[i]]

\* transform.py: col.strip().lower().replace(' ', '_')
normalize_name(col) == replace_space(lower(strip(col)))

\* ------------------------------------------------------------- DataFrames
\* df.empty testing the columns only
empty_NoColumns(df) == df.columns = {}

\* df.empty
empty(df) == Len(df.rows) = 0 \/ df.columns = {}

\* the cells of one column, in row order
Column(df, col) == [i \in 1..Len(df.rows) |-> df.rows[i].cells[col]]

\* a comparison of a column with a number raises TypeError when the column
\* holds text (an object column): '<' is not supported between str and int
CompareRaises(df, col) ==
    \E i \in 1..Len(df.rows) : df.rows[i].cells[col].k = "str"

\* Series.astype(int) raises on a null marker or a non-finite value
AstypeIntRaises(cells) ==
    \E i \in 1..Len(cells) : cells[i].k \in {"nan", "inf"}

\* df[col] = pd.to_numeric(df[col], errors='coerce') for the columns in cols
coerce_columns(df, cols) ==
    [df EXCEPT !.rows =
        [i \in 1..Len(df.rows) |->
            [df.rows[i] EXCEPT !.cells =
                [c \in df.columns |->
                    IF c \in cols THEN to_numeric(df.rows[i].cells[c])
                    ELSE df.rows[i].cells[c]]]]]

\* df[col] = df[col].fillna(0) for the columns in cols
fillna_columns(df, cols) ==
    [df EXCEPT !.rows =
        [i \in 1..Len(df.rows) |->
            [df.rows[i] EXCEPT !.cells =
                [c \in df.columns |->
                    IF c \in cols THEN fillna0(df.rows[i].cells[c])
                    ELSE df.rows[i].cells[c]]]]]

\* df.head(n): the first n rows; for n < 0 all rows but the last -n
head(df, n) ==
    LET len == Len(df.rows)
        keep == IF n >= 0 THEN (IF n < len THEN n ELSE len)
                ELSE (IF len + n > 0 THEN len + n ELSE 0)
    IN  [df EXCEPT !.rows = SubSeq(df.rows, 1, keep)]

\* Python's min
min(a, b) == IF a < b THEN a ELSE b

\* ------------------------------------------------------------ transform.py
\* transform_data_types: every present numeric column goes through
\* to_numeric(errors='coerce'); Year_of_Release then through
\* to_numeric(...).fillna(0).astype(int).  The result is [raised, df]:
\* astype(int) raises when a value is still not finite after fillna(0).
transform_data_types(df) ==
    LET present == numeric_columns \cap df.columns
        coerced == coerce_columns(df, present)
        filled  == fillna_columns(coerce_columns(coerced, {Year_of_Release}),
                                  {Year_of_Release})
    IN  IF Year_of_Release \in df.columns
        THEN IF AstypeIntRaises(Column(filled, Year_of_Release))
             THEN [raised |-> TRUE, df |-> coerced]
             ELSE [raised |-> FALSE, df |-> filled]
        ELSE [raised |-> FALSE, df |-> coerced]

\* normalize_column_names: every column is renamed to its normalized name
normalize_column_names(df) ==
    LET renamed == { normalize_name(c) : c \in df.columns }
        old(n)  == CHOOSE c \in df.columns : normalize_name(c) = n
    IN  [columns |-> renamed,
         rows |-> [i \in 1..Len(df.rows) |->
                     [id |-> df.rows[i].id,
                      cells |-> [n \in renamed |-> df.rows[i].cells[old(n)]]]]]

\* the two transformations with the names normalized first
transform_frame_NormalizeFirst(df) ==
    transform_data_types(normalize_column_names(df))

\* transform_data 87-88: df = transform_data_types(df), then
\* df = normalize_column_names(df); [raised, df] as transform_data_types
transform_frame(df) ==
    LET typed == transform_data_types(df)
    IN  IF typed.raised
        THEN typed
        ELSE [raised |-> FALSE, df |-> normalize_column_names(typed.df)]

\* ------------------------------------------------------------- validate.py
\* validate_schema: False when a required column is missing
validate_schema(df) ==
    LET missing_columns == { col \in required_columns : col \notin df.columns }
    IN  missing_columns = {}

\* the issues validate_data_quality collects
QualityIssues(df) ==
    { <<"null", col>> : col \in
        { c \in key_columns \cap df.columns :
            \E i \in 1..Len(df.rows) : isnull(df.rows[i].cells[c]) } }
    \cup
    (IF year_of_release \in df.columns
        /\ \E i \in 1..Len(df.rows) :
              LET c == df.rows[i].cells[year_of_release]
              IN  c.k = "int" /\ c.v < MinYear
     THEN { <<"old", year_of_release>> } ELSE {})
    \cup
    (IF global_sales \in df.columns
        /\ \E i \in 1..Len(df.rows) :
              LET c == df.rows[i].cells[global_sales]
              IN  c.k = "int" /\ c.v < 0
     THEN { <<"negative", global_sales>> } ELSE {})

\* validate_data_quality: "True" whatever the issues found; "Raise" when one
\* of the two comparisons (df[col] < n) meets a text column
validate_data_quality(df) ==
    IF \/ year_of_release \in df.columns /\ CompareRaises(df, year_of_release)
       \/ global_sales \in df.columns /\ CompareRaises(df, global_sales)
    THEN "Raise"
    ELSE "True"

\* validate_output_files: files is the set of paths that exist
files_to_check == { "raw_dataset.csv", "transformed_dataset.csv", "processed_data.parquet" }

validate_output_files(files) ==
    LET missing_files == { f \in files_to_check : f \notin files }
    IN  missing_files = {}

\* a boolean as the string the results hold
Str(b) == IF b THEN "True" ELSE "False"

\* comprehensive_validation: result is what it returns, checks the checks
\* it ran, in order, schema and quality what validate_schema and
\* validate_data_quality returned ("none" when not called)
comprehensive_validation(df, stage, existing) ==
    IF empty(df)
    THEN [result |-> "False", checks |-> <<"empty">>,
          schema |-> "none", quality |-> "none"]
    ELSE IF stage \in {"transformed", "output"} /\ ~validate_schema(df)
    THEN [result |-> "False", checks |-> <<"empty", "schema">>,
          schema |-> "False", quality |-> "none"]
    ELSE LET staged  == stage \in {"transformed", "output"}
             first   == IF staged THEN <<"empty", "schema">> ELSE <<"empty">>
             schema  == IF staged THEN "True" ELSE "none"
             quality == validate_data_quality(df)
         IN  IF quality # "True"
             THEN [result |-> quality, checks |-> Append(first, "quality"),
                   schema |-> schema, quality |-> quality]
             ELSE IF stage = "output"
             THEN [result |-> Str(validate_output_files(existing)),
                   checks |-> first \o <<"quality", "files">>,
                   schema |-> schema, quality |-> quality]
             ELSE [result |-> "True", checks |-> Append(first, "quality"),
                   schema |-> schema, quality |-> quality]

\* ------------------------------------------------------------------ inputs
Name == <<"N","a","m","e">>
Year_spaced == <<"Y","e","a","r"," ","o","f"," ","R","e","l","e","a","s","e">>

\* the headers a raw source may carry: the expected ones, one column short,
\* the year column spelled with blanks, names already normalized, none of
\* the expected columns
Headers ==
    { expected_columns \cup {Name},
      (expected_columns \ {JP_Sales}) \cup {Name},
      (expected_columns \ {Year_of_Release}) \cup {Year_spaced, Name},
      required_columns,
      {Name} }

\* the kinds of row: plain, old and negative, nulls, text, non-finite year
RowKinds ==
    { [year |-> IntCell(2006), sales |-> IntCell(1)],
      [year |-> IntCell(1900), sales |-> IntCell(-1)],
      [year |-> NaN, sales |-> NaN],
      [year |-> StrCell, sales |-> StrCell],
      [year |-> InfCell, sales |-> IntCell(1)] }

MakeRow(cols, kind, i) ==
    [id |-> i,
     cells |-> [c \in cols |->
                  IF normalize_name(c) = year_of_release THEN kind.year
                  ELSE IF c = Name THEN StrCell
                  ELSE kind.sales]]

Datasets ==
    UNION { { [columns |-> h, rows |-> [i \in 1..n |-> MakeRow(h, ks[i], i)]] :
                h \in Headers, ks \in [1..n -> RowKinds] } : n \in 0..MaxLen }

\* ------------------------------------------------------------------- files
EmptyDF == [columns |-> {}, rows |-> <<>>]
Absent == [state |-> "absent", df |-> EmptyDF]
\* a file that exists and that read_csv cannot parse (zero bytes, binary)
Unreadable == [state |-> "unreadable", df |-> EmptyDF]
\* df.to_csv / the file a download delivers
to_csv(df) == [state |-> "ok", df |-> df]
\* an existence test that always passes
exists_Always(file) == TRUE

\* Path.exists()
exists(file) == file.state # "absent"

\* the sink table before the first write of a run
NoTable == [exists |-> FALSE, rows |-> <<>>]
StaleTable == [exists |-> TRUE, rows |-> << [id |-> 0, cells |-> <<>>] >>]

\* ------------------------------------------------------------------- state
VARIABLES
    skip_extraction,  \* --skip-extraction
    max_rows,         \* --max-rows
    source,           \* what the remote source delivers when the download works
    raw_file,         \* data/raw/raw_dataset.csv
    transformed_file, \* data/processed/transformed_dataset.csv
    parquet_file,     \* data/processed/processed_data.parquet
    engine,           \* DataLoader.engine: "None" or "Engine"
    sink,             \* the sink table
    pc,               \* where the run is
    calls,            \* the functions called so far, in order
    results,          \* what each validation and load step returned
    validation,       \* the last call of comprehensive_validation
    raised,           \* the exception that ended the run, or "none"
    exitCode,         \* the exit code of the process, -1 while it runs
    run,              \* 1 in the first run of the load stage, 2 in the next
    previous,         \* what the first run of the load stage left behind
    names             \* the last call of normalize_column_names on a header

vars == << skip_extraction, max_rows, source, raw_file, transformed_file,
           parquet_file, engine, sink, pc, calls, results, validation, raised,
           exitCode, run, previous, names >>

args == << skip_extraction, max_rows, source >>
files == << raw_file, transformed_file, parquet_file >>
history == << run, previous >>

\* results: what comprehensive_validation returned at each stage, the state
\* the credential store was found in, the outcome of the connection probe,
\* the load step that reported failure, what load_data returned, and the
\* counts validate_output_data compared
NoResults ==
    [raw |-> "none", transformed |-> "none", store |-> "none", probe |-> "none",
     failed |-> "none", load |-> "none",
     expected |-> 0, answered |-> FALSE, reported |-> 0, verify |-> "none"]

NoValidation ==
    [df |-> EmptyDF, stage |-> "none", files |-> {}, result |-> "none",
     checks |-> <<>>, schema |-> "none", quality |-> "none"]

\* what a call of comprehensive_validation leaves in `validation`
Validated(df, stage, existing) ==
    LET v == comprehensive_validation(df, stage, existing)
    IN  [df |-> df, stage |-> stage, files |-> existing, result |-> v.result,
         checks |-> v.checks, schema |-> v.schema, quality |-> v.quality]

\* names before normalize_column_names was called on a header
NoNames == [input |-> {}, once |-> {}, twice |-> {}]

\* previous before a second run of the load stage
NoRun ==
    [sink |-> NoTable, parquet_file |-> Absent, data |-> EmptyDF,
     results |-> NoResults]

\* the paths that exist, for validate_output_files
ExistingFiles ==
    (IF exists(raw_file) THEN {"raw_dataset.csv"} ELSE {})
    \cup (IF exists(transformed_file) THEN {"transformed_dataset.csv"} ELSE {})
    \cup (IF exists(parquet_file) THEN {"processed_data.parquet"} ELSE {})

PipelineInit ==
    /\ skip_extraction \in BOOLEAN
    /\ max_rows \in -1..MaxArg
    /\ source \in {Unreadable} \cup { to_csv(df) : df \in Datasets }
    /\ raw_file \in {Absent, source}
    /\ transformed_file = Absent
    /\ parquet_file = Absent
    /\ engine = "None"
    /\ sink \in {NoTable, StaleTable}
    /\ pc = "start"
    /\ calls = <<>>
    /\ results = NoResults
    /\ validation = NoValidation
    /\ raised = "none"
    /\ exitCode = -1
    /\ run = 1
    /\ previous = NoRun
    /\ names = NoNames

\* -------------------------------------------------------------- extract.py
\* the expected columns validate_raw_data reports as missing
missing_expected(file) == { col \in expected_columns : col \notin file.df.columns }

\* validate_raw_data returning False on a missing expected column
validate_raw_data_Strict(file) ==
    file.state = "ok" /\ ~empty(file.df) /\ missing_expected(file) = {}

\* validate_raw_data: False when the file cannot be read or holds no rows;
\* missing expected columns are only reported
validate_raw_data(file) ==
    IF file.state # "ok" THEN FALSE
    ELSE IF empty(file.df) THEN FALSE
    ELSE TRUE

\* ----------------------------------------------------------------- main.py
\* run_etl_pipeline, except Exception: the run ends with exit code 1
Raise(e) ==
    /\ pc' = "done"
    /\ raised' = e
    /\ exitCode' = 1

\* ExitCodeOf without the sys.exit(1) of the failure branch
ExitCodeOf_NoExit(success) == 0

\* the exit code after load_data returned success
ExitCodeOf(success) == IF success THEN 0 ELSE 1

\* a skip branch that goes on to the validation at stage raw
AfterSkip_Validate == "raw_validation"

\* where the driver goes on after the skip branch: the transformation
AfterSkip == "transform_data"

\* --skip-extraction: only the existence of the staged raw file is checked
SkipExtraction ==
    /\ pc = "start"
    /\ skip_extraction
    /\ IF ~exists(raw_file)
       THEN Raise("FileNotFoundError")
       ELSE /\ pc' = AfterSkip
            /\ UNCHANGED << raised, exitCode >>
    /\ UNCHANGED << args, history, names, files, engine, sink, calls, results, validation >>

\* extract_data -> download_dataset: the download delivers the source file
\* or nothing; the destination must exist afterwards
DownloadDataset ==
    /\ pc = "start"
    /\ ~skip_extraction
    /\ calls' = calls \o <<"extract_data", "download_dataset">>
    /\ \E delivered \in BOOLEAN :
          /\ raw_file' = IF delivered THEN source ELSE raw_file
          /\ IF ~exists(raw_file')
             THEN Raise("FileNotFoundError")
             ELSE /\ pc' = "validate_raw_data"
                  /\ UNCHANGED << raised, exitCode >>
    /\ UNCHANGED << args, history, names, transformed_file, parquet_file, engine, sink, results,
                    validation >>

\* extract_data -> validate_raw_data: False raises ValueError
ValidateRawData ==
    /\ pc = "validate_raw_data"
    /\ calls' = Append(calls, "validate_raw_data")
    /\ IF validate_raw_data(raw_file)
       THEN /\ pc' = "raw_validation"
            /\ UNCHANGED << raised, exitCode >>
       ELSE Raise("ValueError")
    /\ UNCHANGED << args, history, names, files, engine, sink, results, validation >>

\* main.py 43-44: the raw file is read and validated at stage raw; what the
\* validation returns is dropped
RawValidation ==
    /\ pc = "raw_validation"
    /\ LET v == Validated(raw_file.df, "raw", ExistingFiles)
       IN  /\ validation' = v
           /\ calls' = Append(calls, "comprehensive_validation") \o v.checks
           /\ results' = [results EXCEPT !.raw = v.result]
           /\ IF v.result = "Raise"
              THEN Raise("TypeError")
              ELSE /\ pc' = "transform_data"
                   /\ UNCHANGED << raised, exitCode >>
    /\ UNCHANGED << args, history, names, files, engine, sink >>

\* transform_data: read, coerce the types, normalize the names, write
TransformData ==
    /\ pc = "transform_data"
    /\ calls' = Append(calls, "transform_data")
    /\ IF raw_file.state # "ok"
       THEN /\ Raise("ParserError")
            /\ UNCHANGED transformed_file
       ELSE LET transformed == transform_frame(raw_file.df)
            IN  IF transformed.raised
                THEN /\ Raise("IntCastingNaNError")
                     /\ UNCHANGED transformed_file
                ELSE /\ transformed_file' = to_csv(transformed.df)
                     /\ pc' = "transformed_validation"
                     /\ UNCHANGED << raised, exitCode >>
    /\ UNCHANGED << args, history, names, raw_file, parquet_file, engine, sink, results,
                    validation >>

\* main.py 49-50: the transformed file is read and validated at stage
\* transformed; what the validation returns is dropped
TransformedValidation ==
    /\ pc = "transformed_validation"
    /\ LET v == Validated(transformed_file.df, "transformed", ExistingFiles)
       IN  /\ validation' = v
           /\ calls' = Append(calls, "comprehensive_validation") \o v.checks
           /\ results' = [results EXCEPT !.transformed = v.result]
           /\ IF v.result = "Raise"
              THEN Raise("TypeError")
              ELSE /\ pc' = "load_data"
                   /\ UNCHANGED << raised, exitCode >>
    /\ UNCHANGED << args, history, names, files, engine, sink >>

\* ----------------------------------------------------------------- load.py
\* the states of the credential store
CredentialStores == {"unreachable", "empty", "ok"}

\* get_connection_params: None when the store cannot be read, an empty dict
\* when it holds no row, the parameters otherwise
get_connection_params(store) ==
    IF store = "unreachable" THEN "None"
    ELSE IF store = "empty" THEN "Empty"
    ELSE "Params"

\* has_params testing `conn_params is None` only
has_params_NoneOnly(conn_params) == conn_params # "None"

\* setup_database_connection: `if not conn_params: return False`
has_params(conn_params) == conn_params \notin {"None", "Empty"}

\* validate_output_data: `if expected_rows and row_count != expected_rows`
\* is the mismatch that returns False
count_mismatch(expected_rows, row_count) ==
    expected_rows # 0 /\ row_count # expected_rows

\* to_sql appending to the table (if_exists="append")
append_table(table, rows) == [exists |-> TRUE, rows |-> table.rows \o rows]

\* to_sql(if_exists="replace"): the table is dropped and created again with
\* the rows written
replace_table(table, rows) == [exists |-> TRUE, rows |-> rows]

\* a verification that drops the table when it fails
after_verify_Rollback(table, passed) == IF passed THEN table ELSE NoTable

\* validate_output_data only reads the table (COUNT(*), LIMIT 3): the table
\* after the verification is the table before it
after_verify(table, passed) == table

\* to_parquet with the frame truncated as for the sink
to_parquet_Limited(data) == [state |-> "ok", df |-> head(data, max_rows)]

\* save_to_parquet: data.to_parquet(output_path) writes the frame it is given,
\* and load_data gives it the frame it read, not data_limited
to_parquet(data) == [state |-> "ok", df |-> data]

\* load_data returns False: the driver goes on to report the failure
LoadFails(step) ==
    /\ results' = [results EXCEPT !.load = "False", !.failed = step]
    /\ pc' = "finish"

\* load_data 186-194: read the transformed file, then
\* setup_database_connection (get_connection_params, create_engine, probe)
SetupDatabaseConnection ==
    /\ pc = "load_data"
    /\ \E store \in CredentialStores, probe \in BOOLEAN :
          LET conn_params == get_connection_params(store)
          IN  IF ~has_params(conn_params)
              THEN /\ calls' = calls \o <<"load_data", "get_connection_params">>
                   /\ results' = [results EXCEPT !.load = "False", !.store = store,
                                     !.failed = "get_connection_params"]
                   /\ pc' = "finish"
                   /\ UNCHANGED engine
              ELSE /\ calls' = calls \o <<"load_data", "get_connection_params", "connect">>
                   /\ engine' = "Engine"
                   /\ IF probe
                      THEN /\ results' = [results EXCEPT !.store = store, !.probe = "ok"]
                           /\ pc' = "load_to_database"
                      ELSE /\ results' = [results EXCEPT !.load = "False",
                                             !.store = store, !.probe = "failed",
                                             !.failed = "connect"]
                           /\ pc' = "finish"
    /\ UNCHANGED << args, history, names, files, sink, validation, raised, exitCode >>

\* load_to_database: the first max_rows rows replace the table in one
\* transaction; a failed write leaves the table as it was
LoadToDatabase ==
    /\ pc = "load_to_database"
    /\ calls' = Append(calls, "load_to_database")
    /\ IF engine = "None"
       THEN LoadFails("load_to_database") /\ UNCHANGED sink
       ELSE LET data_limited == head(transformed_file.df, max_rows)
            IN  \E written \in BOOLEAN :
                   IF written
                   THEN /\ sink' = replace_table(sink, data_limited.rows)
                        /\ pc' = "save_to_parquet"
                        /\ UNCHANGED results
                   ELSE LoadFails("load_to_database") /\ UNCHANGED sink
    /\ UNCHANGED << args, history, names, files, engine, validation, raised, exitCode >>

\* save_to_parquet: the whole dataset is written; None when the write fails
SaveToParquet ==
    /\ pc = "save_to_parquet"
    /\ calls' = Append(calls, "save_to_parquet")
    /\ \E written \in BOOLEAN :
          IF written
          THEN /\ parquet_file' = to_parquet(transformed_file.df)
               /\ pc' = "validate_output_data"
               /\ UNCHANGED results
          ELSE LoadFails("save_to_parquet") /\ UNCHANGED parquet_file
    /\ UNCHANGED << args, history, names, raw_file, transformed_file, engine, sink, validation,
                    raised, exitCode >>

\* validate_output_data(table_name, min(max_rows, len(data))): the sink
\* answers the count query with row_count, or the query fails
ValidateOutputData ==
    /\ pc = "validate_output_data"
    /\ calls' = Append(calls, "validate_output_data")
    /\ LET expected_rows == min(max_rows, Len(transformed_file.df.rows))
       IN  \E row_count \in 0..MaxLen, answered \in BOOLEAN :
              IF engine = "None" \/ ~answered
                 \/ count_mismatch(expected_rows, row_count)
              THEN /\ sink' = after_verify(sink, FALSE)
                   /\ results' = [results EXCEPT !.load = "False", !.verify = "False",
                                     !.failed = "validate_output_data",
                                     !.expected = expected_rows,
                                     !.answered = answered,
                                     !.reported = IF answered THEN row_count ELSE 0]
                   /\ pc' = "finish"
              ELSE /\ sink' = after_verify(sink, TRUE)
                   /\ results' = [results EXCEPT !.load = "True", !.verify = "True",
                                     !.expected = expected_rows,
                                     !.answered = TRUE, !.reported = row_count]
                   /\ pc' = "finish"
    /\ UNCHANGED << args, history, names, files, engine, validation, raised, exitCode >>

\* main.py 56-64: success ends the run normally, failure exits with 1
Finish ==
    /\ pc = "finish"
    /\ pc' = "done"
    /\ exitCode' = ExitCodeOf(results.load = "True")
    /\ UNCHANGED << args, history, names, files, engine, sink, calls, results, validation,
                    raised >>

Next ==
    \/ SkipExtraction
    \/ DownloadDataset
    \/ ValidateRawData
    \/ RawValidation
    \/ TransformData
    \/ TransformedValidation
    \/ SetupDatabaseConnection
    \/ LoadToDatabase
    \/ SaveToParquet
    \/ ValidateOutputData
    \/ Finish

Spec == PipelineInit /\ [][Next]_vars

\* --------------------------------------------- the validator, called alone
Stages == {"raw", "transformed", "output"}

\* the datasets the validator is called on: raw ones, and raw ones with
\* their names normalized
ValidatorInputs == Datasets \cup { normalize_column_names(df) : df \in Datasets }

ValidatorInit ==
    /\ skip_extraction = FALSE
    /\ max_rows = 0
    /\ source = Unreadable
    /\ raw_file \in {Absent, Unreadable}
    /\ transformed_file \in {Absent, Unreadable}
    /\ parquet_file \in {Absent, Unreadable}
    /\ engine = "None"
    /\ sink = NoTable
    /\ pc = "validator"
    /\ calls = <<>>
    /\ results = NoResults
    /\ validation = NoValidation
    /\ raised = "none"
    /\ exitCode = -1
    /\ run = 1
    /\ previous = NoRun
    /\ names = NoNames

\* comprehensive_validation(df, stage)
CallComprehensiveValidation ==
    /\ pc = "validator"
    /\ \E df \in ValidatorInputs, stage \in Stages :
          LET v == Validated(df, stage, ExistingFiles)
          IN  /\ validation' = v
              /\ calls' = Append(calls, "comprehensive_validation") \o v.checks
    /\ pc' = "validated"
    /\ UNCHANGED << args, history, names, files, engine, sink, results, raised, exitCode >>

\* validate_schema(df) and validate_data_quality(df) on the same dataset
CallSchemaAndQuality ==
    /\ pc = "validator"
    /\ \E df \in ValidatorInputs :
          validation' = [df |-> df, stage |-> "none", files |-> ExistingFiles,
                         result |-> "none", checks |-> <<"schema", "quality">>,
                         schema |-> Str(validate_schema(df)),
                         quality |-> validate_data_quality(df)]
    /\ calls' = calls \o <<"validate_schema", "validate_data_quality">>
    /\ pc' = "checked"
    /\ UNCHANGED << args, history, names, files, engine, sink, results, raised, exitCode >>

ValidatorNext == CallComprehensiveValidation \/ CallSchemaAndQuality

SpecValidate == ValidatorInit /\ [][ValidatorNext]_vars

\* the dataset load_data reads
Data == transformed_file.df

\* ------------------------------------------- the load stage, run and re-run
\* the datasets transform_data writes
TransformedDatasets ==
    { transform_frame(df).df :
        df \in { d \in Datasets : ~transform_frame(d).raised } }

\* the transformed dataset of a later run: one plain row
NextData ==
    [columns |-> required_columns,
     rows |-> << [id |-> 1, cells |-> [c \in required_columns |-> IntCell(1)]] >>]

LoadInit ==
    /\ skip_extraction = TRUE
    /\ max_rows \in -1..MaxArg
    /\ source = Unreadable
    /\ raw_file = Unreadable
    /\ transformed_file \in { to_csv(df) : df \in TransformedDatasets }
    /\ parquet_file = Absent
    /\ engine = "None"
    /\ sink \in {NoTable, StaleTable}
    /\ pc = "load_data"
    /\ calls = <<>>
    /\ results = NoResults
    /\ validation = NoValidation
    /\ raised = "none"
    /\ exitCode = -1
    /\ run = 1
    /\ previous = NoRun
    /\ names = NoNames

\* load_data is called again, by the next run of the pipeline: a new
\* DataLoader, the same table name and max_rows, the same transformed file
\* or the one the next run's transformation wrote; the sink and the files are
\* as the first call left them
LoadAgain ==
    /\ pc = "finish"
    /\ run = 1
    /\ run' = 2
    /\ previous' = [sink |-> sink, parquet_file |-> parquet_file, data |-> Data,
                    results |-> results]
    /\ transformed_file' \in {transformed_file, to_csv(NextData)}
    /\ engine' = "None"
    /\ calls' = <<>>
    /\ results' = NoResults
    /\ pc' = "load_data"
    /\ UNCHANGED << args, names, raw_file, parquet_file, sink, validation, raised,
                    exitCode >>

LoadNext ==
    \/ SetupDatabaseConnection
    \/ LoadToDatabase
    \/ SaveToParquet
    \/ ValidateOutputData
    \/ LoadAgain

SpecLoad == LoadInit /\ [][LoadNext]_vars

\* ------------------------------------ normalize_column_names, called alone
\* the characters of the names drawn: a capital, a small letter, a blank, an
\* underscore, a tab
Alphabet == {"A", "a", " ", "_", "\t"}

NamesUpTo(n) == UNION { [1..k -> Alphabet] : k \in 0..n }

\* the headers drawn: every name alone, and every pair of shorter names
NameSets ==
    { {a} : a \in NamesUpTo(MaxName) }
    \cup { {a, b} : a \in NamesUpTo(MaxName - 1), b \in NamesUpTo(MaxName - 1) }

\* a frame with the columns cols and no row
Header(cols) == [columns |-> cols, rows |-> <<>>]

NormalizeInit ==
    /\ skip_extraction = FALSE
    /\ max_rows = 0
    /\ source = Unreadable
    /\ raw_file = Absent
    /\ transformed_file = Absent
    /\ parquet_file = Absent
    /\ engine = "None"
    /\ sink = NoTable
    /\ pc = "normalizer"
    /\ calls = <<>>
    /\ results = NoResults
    /\ validation = NoValidation
    /\ raised = "none"
    /\ exitCode = -1
    /\ run = 1
    /\ previous = NoRun
    /\ names = NoNames

\* normalize_column_names(df), and normalize_column_names on what it returned
CallNormalizeColumnNames ==
    /\ pc = "normalizer"
    /\ \E cols \in NameSets :
          LET once == normalize_column_names(Header(cols))
          IN  names' = [input |-> cols, once |-> once.columns,
                        twice |-> normalize_column_names(once).columns]
    /\ calls' = calls \o <<"normalize_column_names", "normalize_column_names">>
    /\ pc' = "normalized"
    /\ UNCHANGED << args, history, files, engine, sink, results, validation, raised,
                    exitCode >>

NormalizeNext == CallNormalizeColumnNames

SpecNormalize == NormalizeInit /\ [][NormalizeNext]_vars

\* ================================================================== claims
Called(f) == \E i \in 1..Len(calls) : calls[i] = f

\* the sink holds what it held before the run
SinkUntouched == sink \in {NoTable, StaleTable}

\* C1: whenever comprehensive_validation of the transformed dataset returned
\* false, the load stage is never started, nothing is written to the sink,
\* and the run ends with exit code 1.
C1_TransformedFailureAborts ==
    results.transformed = "False" =>
        /\ ~Called("load_data")
        /\ SinkUntouched
        /\ (pc = "done" => exitCode = 1)

\* C2: a run whose staged raw dataset has zero rows ends with exit code 1,
\* with or without skip_extraction.
C2_EmptyDatasetFails ==
    (pc = "done" /\ raw_file.state = "ok" /\ Len(raw_file.df.rows) = 0) =>
        exitCode = 1

\* C3: the run ends with exit code 0 exactly when extraction (or the
\* skip-extraction file check), transformation and load_data all succeeded,
\* and with exit code 1 whenever an exception escaped a stage or load_data
\* returned false.
C3_ExitCode ==
    pc = "done" =>
        /\ exitCode \in {0, 1}
        /\ exitCode = 0 <=>
              /\ Called("transform_data")
              /\ Called("load_data")
              /\ raised = "none"
              /\ results.load = "True"
        /\ raised # "none" => exitCode = 1
        /\ results.load = "False" => exitCode = 1

C3_Witness ==
    /\ pc = "done"
    /\ exitCode = 0
    /\ results.load = "True"
    /\ Called("extract_data")

\* the steps of load_data, in the order of the code
LoadOrder ==
    << "load_data", "get_connection_params", "connect", "load_to_database",
       "save_to_parquet", "validate_output_data" >>

IsLoadStep(c) == \E i \in 1..Len(LoadOrder) : LoadOrder[i] = c

LoadCalls == SelectSeq(calls, IsLoadStep)

\* C4: load_data runs resolve connection parameters, connect, write sink,
\* write columnar artifact, verify sink in that order; the first step that
\* reports failure makes load_data return false with no later step run; with
\* the credential store unreachable or empty, or the probe failed, neither
\* the sink table nor the columnar file is written.
C4_LoadOrder ==
    /\ Len(LoadCalls) <= Len(LoadOrder)
    /\ LoadCalls = SubSeq(LoadOrder, 1, Len(LoadCalls))
    /\ results.failed # "none" =>
          /\ results.load = "False"
          /\ LoadCalls # <<>>
          /\ LoadCalls[Len(LoadCalls)] = results.failed
    /\ results.load = "True" => LoadCalls = LoadOrder
    /\ (results.store \in {"unreachable", "empty"} \/ results.probe = "failed") =>
          /\ results.load = "False"
          /\ SinkUntouched
          /\ parquet_file = Absent

C4_Witness ==
    /\ pc = "done"
    /\ results.store = "empty"
    /\ results.failed = "get_connection_params"
    /\ sink = StaleTable

\* C5: validate_output_data returns false (and load_data returns false)
\* whenever the row count the sink reports differs from
\* min(max_rows, len(data)), and true only when they are equal.
C5_VerifyIffEqual ==
    (results.verify # "none" /\ results.answered) =>
        /\ results.expected = min(max_rows, Len(Data.rows))
        /\ results.verify = "True" <=> results.reported = results.expected
        /\ results.verify = "False" => results.load = "False"

\* C6: after load_to_database wrote, the sink holds exactly the first
\* min(max_rows, len(data)) rows in their order (no row when that is not
\* positive), so never more than max_rows rows.
C6_SinkHoldsFirstRows ==
    (Called("load_to_database") /\ results.failed # "load_to_database") =>
        LET n == min(max_rows, Len(Data.rows))
        IN  /\ sink.exists
            /\ sink.rows = IF n > 0 THEN SubSeq(Data.rows, 1, n) ELSE <<>>
            /\ Len(sink.rows) <= (IF max_rows > 0 THEN max_rows ELSE 0)

\* C7: a run ends with exit code 0 only after the existence check of the
\* three artifact paths was performed and found them all present.
C7_ArtifactsChecked ==
    (pc = "done" /\ exitCode = 0) =>
        /\ Called("files")
        /\ files_to_check \subseteq ExistingFiles

\* C8: comprehensive_validation(df, stage) runs emptiness, schema, quality,
\* artifacts in that order, stops at the first hard failure, and returns:
\* df non-empty and (stage raw or all six required columns present) and
\* (stage not output or all three artifact files exist); the schema check
\* is never run at stage raw and the artifact check only at stage output.
C8_ComprehensiveResult ==
    validation.stage \in Stages =>
        LET df == validation.df
            stage == validation.stage
            InChecks(c) == \E i \in 1..Len(validation.checks) : validation.checks[i] = c
            all == <<"empty", "schema", "quality", "files">>
            IsRun(c) == InChecks(c)
        IN  /\ validation.result =
                 Str(/\ Len(df.rows) > 0
                     /\ (stage = "raw" \/ required_columns \subseteq df.columns)
                     /\ (stage # "output" \/ files_to_check \subseteq validation.files))
            /\ validation.checks = SelectSeq(all, IsRun)
            /\ InChecks("schema") => stage # "raw"
            /\ InChecks("files") => stage = "output"

\* C9: for every dataset lacking one of the six required columns,
\* validate_schema returns false and validate_data_quality on the same
\* dataset returns true.
C9_SchemaQualityAsymmetry ==
    (pc = "checked" /\ ~(required_columns \subseteq validation.df.columns)) =>
        /\ validation.schema = "False"
        /\ validation.quality = "True"

\* the cell of row i of the transformed file for the raw column col
TransformedCell(i, col) == transformed_file.df.rows[i].cells[normalize_name(col)]

\* C10: transform_data_types never raises; every unparsable value of a
\* present numeric column other than Year_of_Release becomes the null
\* marker, every unparsable or missing Year_of_Release value becomes the
\* integer 0, and the Year_of_Release column ends up integral.
C10_CoercionNeverRaises ==
    (Called("transform_data") /\ raw_file.state = "ok") =>
        /\ raised # "IntCastingNaNError"
        /\ transformed_file.state = "ok"
        /\ \A i \in 1..Len(raw_file.df.rows) :
              \A col \in numeric_columns \cap raw_file.df.columns :
                 LET before == raw_file.df.rows[i].cells[col]
                     after  == TransformedCell(i, col)
                 IN  IF col = Year_of_Release
                     THEN /\ after.k = "int"
                          /\ before.k \in {"str", "nan"} => after = IntCell(0)
                     ELSE before.k = "str" => after = NaN

\* C11: whenever the columnar artifact is written it holds every row of the
\* transformed dataset, whatever max_rows is: the truncation of the sink
\* write is not applied to it.
C11_ParquetHoldsAllRows ==
    parquet_file.state = "ok" =>
        /\ parquet_file.df = Data
        /\ Len(parquet_file.df.rows) = Len(raw_file.df.rows)

C11_Witness ==
    /\ parquet_file.state = "ok"
    /\ max_rows >= 0
    /\ Len(sink.rows) < Len(parquet_file.df.rows)
    /\ Len(sink.rows) = max_rows

\* C12: for every stage, comprehensive_validation on a dataset with zero
\* rows returns false, and does so before the schema, quality or artifact
\* checks run.
C12_EmptyFailsFirst ==
    (validation.stage \in Stages /\ Len(validation.df.rows) = 0) =>
        /\ validation.result = "False"
        /\ validation.checks = <<"empty">>
        /\ validation.schema = "none"
        /\ validation.quality = "none"

C12_Witness ==
    /\ validation.stage = "output"
    /\ Len(validation.df.rows) = 0
    /\ required_columns \subseteq validation.df.columns
    /\ files_to_check \subseteq validation.files
    /\ validation.result = "False"

\* the load stage wrote the sink in this run
SinkWritten == Called("load_to_database") /\ results.failed # "load_to_database"

\* C13: when validate_output_data fails after the sink write and the
\* columnar write, load_data returns false and both the sink table and the
\* columnar file stay exactly as written; the next run that writes replaces
\* the contents of the sink table wholesale.
C13_NoRollback ==
    /\ results.failed = "validate_output_data" =>
          /\ results.load = "False"
          /\ sink = [exists |-> TRUE, rows |-> head(Data, max_rows).rows]
          /\ parquet_file = [state |-> "ok", df |-> Data]
    /\ (run = 2 /\ SinkWritten) =>
          /\ sink.rows = head(Data, max_rows).rows
          /\ \A i \in 1..Len(sink.rows) :
                \E j \in 1..Len(Data.rows) : Data.rows[j] = sink.rows[i]

C13_Witness ==
    /\ run = 2
    /\ previous.results.failed = "validate_output_data"
    /\ Len(previous.sink.rows) > 1
    /\ results.load = "True"
    /\ Data = NextData
    /\ Len(sink.rows) = 1

\* C14: if the destination file does not exist after the download returned,
\* download_dataset raises, extract_data passes the error on without calling
\* validate_raw_data, and the driver exits with code 1 without running the
\* transformation or the load.
C14_MissingDownloadAborts ==
    (Called("download_dataset") /\ raw_file.state = "absent") =>
        /\ raised = "FileNotFoundError"
        /\ ~Called("validate_raw_data")
        /\ ~Called("comprehensive_validation")
        /\ ~Called("transform_data")
        /\ ~Called("load_data")
        /\ transformed_file = Absent
        /\ SinkUntouched
        /\ pc = "done"
        /\ exitCode = 1

C14_Witness ==
    /\ Called("download_dataset")
    /\ raw_file.state = "absent"
    /\ source.state = "ok"
    /\ pc = "done"

\* C15: normalize_column_names is idempotent on the column names: applied
\* to its own result it yields the same names, each of them trimmed,
\* lower-case and free of blanks.
C15_NormalizeIdempotent ==
    pc = "normalized" =>
        /\ names.twice = names.once
        /\ \A n \in names.once :
              /\ \A i \in 1..Len(n) : n[i] # " " /\ n[i] # "A"
              /\ n # <<>> => (n[1] \notin Whitespace /\ n[Len(n)] \notin Whitespace)

C15_Witness ==
    /\ pc = "normalized"
    /\ names.input = { <<" ", "A">>, <<"a", "\t">> }
    /\ names.once = { <<"a">> }

\* C16: validate_raw_data never raises: it returns false when the raw file
\* cannot be read or holds no row (extract_data then raises ValueError), and
\* true for every readable non-empty dataset whatever expected columns are
\* missing, so that extract_data returns and the run goes on.
C16_RawValidationSoft ==
    Called("validate_raw_data") =>
        /\ raised = "ValueError" <=>
              (raw_file.state # "ok" \/ Len(raw_file.df.rows) = 0)
        /\ raised = "ValueError" => (pc = "done" /\ ~Called("transform_data"))
        /\ raised # "ParserError"
        /\ (raw_file.state = "ok" /\ Len(raw_file.df.rows) > 0) =>
              (pc = "raw_validation" \/ Called("comprehensive_validation"))

C16_Witness ==
    /\ Called("validate_raw_data")
    /\ raw_file.state = "ok"
    /\ missing_expected(raw_file) = expected_columns
    /\ Called("transform_data")
    /\ transformed_file.state = "ok"

\* the first call of load_data got as far as writing the table
FirstRunWrote ==
    previous.results.failed \in {"none", "save_to_parquet", "validate_output_data"}

\* C17: when the load stage runs a second time on the same transformed
\* dataset with the same max_rows, the sink table holds what the first run
\* left in it, at every point of the second run (replace, never append), and
\* a verification that gets the same answer from the sink passes in the
\* second run exactly when it passed in the first.
C17_RerunIdempotent ==
    (run = 2 /\ Data = previous.data /\ FirstRunWrote) =>
        /\ sink = previous.sink
        /\ sink.rows = head(Data, max_rows).rows
        /\ (/\ results.verify # "none"
            /\ previous.results.verify # "none"
            /\ results.answered = previous.results.answered
            /\ results.reported = previous.results.reported) =>
               /\ results.expected = previous.results.expected
               /\ results.verify = previous.results.verify
        /\ (/\ results.verify # "none"
            /\ previous.results.verify # "none"
            /\ results.answered /\ results.reported = Len(sink.rows)
            /\ previous.results.answered
            /\ previous.results.reported = Len(previous.sink.rows)) =>
               results.verify = previous.results.verify

C17_Witness ==
    /\ run = 2
    /\ Data = previous.data
    /\ previous.results.verify = "True"
    /\ results.verify = "True"
    /\ SinkWritten
    /\ Len(sink.rows) = 2
    /\ results.reported = 2
    /\ previous.results.reported = 2

\* C18: validate_data_quality returns true for every dataset and never
\* raises, so that whenever comprehensive_validation reaches the quality
\* check its result is decided by the other checks alone: true at the stages
\* raw and transformed, and the artifact check's answer at stage output.
C18_QualityNeverGates ==
    validation.quality # "none" =>
        /\ validation.quality = "True"
        /\ validation.stage \in {"raw", "transformed"} => validation.result = "True"
        /\ validation.stage = "output" =>
              validation.result = Str(validate_output_files(validation.files))

\* C19: transform_data coerces the types before it normalizes the names:
\* every numeric column present under its original name holds no text in
\* the written file, a column under any other name keeps its cells, every
\* column name written is in normalized form, and a raw dataset with the
\* six expected columns gives a transformed dataset that passes
\* validate_schema.
C19_CoerceThenNormalize ==
    transformed_file.state = "ok" =>
        /\ \A c \in transformed_file.df.columns :
              /\ normalize_name(c) = c
              /\ \A k \in 1..Len(c) : c[k] # " " /\ \A u \in 1..Len(Upper) : c[k] # Upper[u]
        /\ transformed_file.df.columns =
              { normalize_name(c) : c \in raw_file.df.columns }
        /\ Len(transformed_file.df.rows) = Len(raw_file.df.rows)
        /\ \A i \in 1..Len(raw_file.df.rows) :
              /\ \A col \in numeric_columns \cap raw_file.df.columns :
                    TransformedCell(i, col).k # "str"
              /\ \A col \in raw_file.df.columns \ numeric_columns :
                    TransformedCell(i, col) = raw_file.df.rows[i].cells[col]
        /\ expected_columns \subseteq raw_file.df.columns =>
              validate_schema(transformed_file.df)

C19_Witness ==
    /\ transformed_file.state = "ok"
    /\ expected_columns \subseteq raw_file.df.columns
    /\ Len(raw_file.df.rows) = 2
    /\ raw_file.df.rows[1].cells[Global_Sales] = StrCell
    /\ TransformedCell(1, Global_Sales) = NaN
    /\ TransformedCell(1, Year_of_Release) = IntCell(0)
    /\ validation.stage = "transformed"
    /\ validation.schema = "True"

\* C20: with skip_extraction set the driver downloads nothing and validates
\* nothing at stage raw: extract_data, download_dataset and validate_raw_data
\* are never called and the first call is transform_data; when the staged
\* raw file is absent the run ends with exit code 1 before the
\* transformation, otherwise it goes straight to the transformation.
C20_SkipExtraction ==
    skip_extraction =>
        /\ ~Called("extract_data")
        /\ ~Called("download_dataset")
        /\ ~Called("validate_raw_data")
        /\ pc \notin {"validate_raw_data", "raw_validation"}
        /\ validation.stage # "raw"
        /\ results.raw = "none"
        /\ calls # <<>> => calls[1] = "transform_data"
        /\ (pc # "start" /\ raw_file.state = "absent") =>
              /\ pc = "done"
              /\ exitCode = 1
              /\ raised = "FileNotFoundError"
              /\ calls = <<>>
              /\ transformed_file = Absent
              /\ SinkUntouched
        /\ (pc # "start" /\ raw_file.state # "absent") =>
              (pc = "transform_data" \/ Called("transform_data"))

C20_Witness ==
    /\ skip_extraction
    /\ raw_file.state = "ok"
    /\ Called("transform_data")
    /\ validation.stage = "transformed"
    /\ Called("load_data")
    /\ pc = "done"

C20_WitnessAbsent ==
    skip_extraction /\ raw_file.state = "absent" /\ pc = "done" /\ exitCode = 1

====
